---- MODULE Spec2Model ----
(***************************************************************************)
(* Model of the research -> analysis -> innovation pipeline:               *)
(*   src/api/main.py                 get_innovation_ideas (orchestrator),  *)
(*                                   get_analysis_insights,                *)
(*                                   get_research_data                     *)
(*   src/agents/research_agent.py    gather_and_preprocess_data (fetch)    *)
(*   src/agents/analysis_agent.py    analyze_data_and_generate_insights    *)
(*   src/agents/innovation_agent.py  generate_ideas_from_insights,         *)
(*                                   generate_markdown_report              *)
(*                                                                         *)
(* Quality scores are floats in the source; here they are integers in      *)
(* units of 1/60 (0.05 = 3, 0.1 = 6, 0.5 = 30, 1.0 = 60), which represents *)
(* n/10 and n/3 exactly.                                                   *)
(***************************************************************************)
EXTENDS Integers, Sequences, FiniteSets, TLC

\* ------------------------------------------------------------------ bounds
MaxItems == 3       \* longest item list handed to the extractor on its own
MaxPerSource == 2   \* most articles one source returns in one fetch

\* ------------------------------------------------------- program constants
REFINEMENT_THRESHOLD == 30          \* 0.5, in sixtieths
MAX_REFINEMENT_ITERATIONS == 1
EMPTY_DATA_SCORE == 6               \* 0.1
FALLBACK_SCORE == 3                 \* 0.05
SCORE_CAP == 60                     \* 1.0
news_api_target_count == 5
ARXIV_MAX == 5
MAX_CLUSTERS == 3

Min(a, b) == IF a < b THEN a ELSE b
Max(a, b) == IF a > b THEN a ELSE b

SeqsUpTo(S, n) == UNION {[1..k -> S] : k \in 0..n}

\* ==========================================================================
\* Raw items.  An item is abstracted to what the extractor's control flow
\* depends on:
\*   "nondict"   not a dictionary
\*   "nulltitle" a dictionary whose title is None (NewsApiClient and
\*               ArxivClient copy a missing title as None)
\*   "text"      a dictionary with string fields holding at least one term
\*               the vectorizer indexes
\*   "blank"     a dictionary with string (or absent) fields holding no term
\*               the vectorizer indexes (empty, or stop words only)
\* ==========================================================================
ItemKinds == {"text", "blank", "nulltitle", "nondict"}
ArticleKinds == {"text", "blank", "nulltitle"}
Sources == {"NewsAPI", "ArXiv"}

Item(src, kind) == [source |-> src, kind |-> kind]
Items == [source : Sources, kind : ItemKinds]

\* ==========================================================================
\* Insight Extractor: AnalysisAgent.analyze_data_and_generate_insights
\* ==========================================================================
NoType == "none"    \* the record carries no "type" key
AggregateTypes == {"overall_trend_analysis", "overall_summary", "overall_analysis_summary"}

\* per-item insight, lines 66-74: no "type", no "insight_quality_score"
PerItemInsight(item) ==
    [type |-> NoType, source |-> item.source, has_score |-> FALSE, score |-> 0,
     nterms |-> 0, clusters |-> 0]

\* variant: the empty-input record carries the fallback's score
EmptyDataAggregateLowScore ==
    [type |-> "overall_analysis_summary", source |-> "aggregate", has_score |-> TRUE,
     score |-> FALLBACK_SCORE, nterms |-> 0, clusters |-> 0]

\* line 38
EmptyDataAggregate ==
    [type |-> "overall_analysis_summary", source |-> "aggregate", has_score |-> TRUE,
     score |-> EMPTY_DATA_SCORE, nterms |-> 0, clusters |-> 0]

\* line 144
FallbackAggregate ==
    [type |-> "overall_analysis_summary", source |-> "aggregate", has_score |-> TRUE,
     score |-> FALLBACK_SCORE, nterms |-> 0, clusters |-> 0]

\* variant: the trend record carries no cluster count
TrendAggregateNoClusters(nterms, k) ==
    [type |-> "overall_trend_analysis", source |-> "aggregate", has_score |-> FALSE,
     score |-> 0, nterms |-> nterms, clusters |-> 0]

\* lines 106-111: appended without a score; the score is written at line 140
TrendAggregate(nterms, k) ==
    [type |-> "overall_trend_analysis", source |-> "aggregate", has_score |-> FALSE,
     score |-> 0, nterms |-> nterms, clusters |-> k]

\* lines 115-119
SimpleAggregate(nterms) ==
    [type |-> "overall_summary", source |-> "aggregate", has_score |-> FALSE,
     score |-> 0, nterms |-> nterms, clusters |-> 0]

\* Outcome of the body of the per-item try block, lines 44-75:
\* a non-dictionary is skipped (45-47); item.get('title', 'N/A')[:50] at line
\* 49 raises TypeError when the title is None; otherwise an insight is built.
ItemTry(item) ==
    IF item.kind = "nondict" THEN "skip"
    ELSE IF item.kind = "nulltitle" THEN "raise"
    ELSE "insight"

\* The handler, lines 76-79: its log line evaluates
\* item.get('title', 'Unknown')[:50] again, which raises the same TypeError
\* inside the handler, so the exception leaves the function.
ItemHandler(item) ==
    IF item.kind = "nulltitle" THEN "propagate" ELSE "continue"

\* for-loop, lines 43-79: [raised, insights, texts]
RECURSIVE ItemLoop(_, _)
ItemLoop(items, acc) ==
    IF items = <<>> THEN acc
    ELSE LET item == Head(items)
             t == ItemTry(item)
         IN  IF t = "skip" THEN ItemLoop(Tail(items), acc)
             ELSE IF t = "raise"
                  THEN IF ItemHandler(item) = "propagate"
                       THEN [acc EXCEPT !.raised = TRUE]
                       ELSE ItemLoop(Tail(items), acc)
             ELSE ItemLoop(Tail(items),
                           [acc EXCEPT !.insights = Append(@, PerItemInsight(item)),
                                       !.texts = Append(@, item.kind)])

\* TfidfVectorizer.fit_transform, line 89: raises ValueError (empty
\* vocabulary) when no document holds an indexable term; libFails stands for
\* any other failure inside the library calls of lines 88-105.
AggregateRaises(texts, libFails) ==
    libFails \/ \A i \in DOMAIN texts : texts[i] # "text"

\* lines 93-99: sums_tfidf is a 1 x V matrix, so argsort(...).flatten().tolist()
\* is a list holding ONE list of indices, and the loop appends one string.
TopTermCount(texts) == 1

\* variant: the block runs for a single text as well
AggregateStepAnyTexts(insights, texts, libFails) ==
    IF Len(texts) > 0
    THEN IF AggregateRaises(texts, libFails) THEN insights
         ELSE LET nterms == TopTermCount(texts)
                  num_clusters == Min(Len(texts), MAX_CLUSTERS)
              IN  IF num_clusters >= 2
                  THEN Append(insights, TrendAggregate(nterms, num_clusters))
                  ELSE IF nterms > 0
                       THEN Append(insights, SimpleAggregate(nterms))
                       ELSE insights
    ELSE insights

\* lines 83-126: the insights list after the overall-analysis block
AggregateStep(insights, texts, libFails) ==
    IF Len(texts) > 1
    THEN IF AggregateRaises(texts, libFails) THEN insights      \* except, 122-124
         ELSE LET nterms == TopTermCount(texts)
                  num_clusters == Min(Len(texts), MAX_CLUSTERS)
              IN  IF num_clusters >= 2
                  THEN Append(insights, TrendAggregate(nterms, num_clusters))
                  ELSE IF nterms > 0
                       THEN Append(insights, SimpleAggregate(nterms))
                       ELSE insights
    ELSE insights

\* next((i for i in insights if i.get("type") in [...]), None), line 130:
\* index of the first match, 0 for None
RECURSIVE FirstMatchFrom(_, _, _)
FirstMatchFrom(s, i, types) ==
    IF i > Len(s) THEN 0
    ELSE IF s[i].type \in types THEN i
    ELSE FirstMatchFrom(s, i + 1, types)

ScoredTypes == {"overall_trend_analysis", "overall_analysis_summary"}

\* variant: the sum is not clamped
RecomputedScoreUncapped(insights, agg) ==
    6 * Len(insights) + 6 * agg.nterms + 20 * agg.clusters

\* variant: the aggregate record itself is not counted
RecomputedScoreItemsOnly(insights, agg) ==
    Min(SCORE_CAP, 6 * (Len(insights) - 1) + 6 * agg.nterms + 20 * agg.clusters)

\* line 135-139
RecomputedScore(insights, agg) ==
    Min(SCORE_CAP, 6 * Len(insights) + 6 * agg.nterms + 20 * agg.clusters)

\* lines 130-144
ScoreStep(insights) ==
    LET i == FirstMatchFrom(insights, 1, ScoredTypes)
    IN  IF i # 0
        THEN IF insights[i].type = "overall_trend_analysis" \/ insights[i].nterms > 0
             THEN [insights EXCEPT ![i].has_score = TRUE,
                                   ![i].score = RecomputedScore(insights, insights[i])]
             ELSE insights
        ELSE Append(insights, FallbackAggregate)

\* the whole method, lines 27-148: [raised, insights]
analyze_data_and_generate_insights(research_data, libFails) ==
    IF research_data = <<>>
    THEN [raised |-> FALSE, insights |-> <<EmptyDataAggregate>>]     \* 36-40
    ELSE LET loop == ItemLoop(research_data,
                              [raised |-> FALSE, insights |-> <<>>, texts |-> <<>>])
         IN  IF loop.raised
             THEN [raised |-> TRUE, insights |-> <<>>]
             ELSE [raised |-> FALSE,
                   insights |-> ScoreStep(AggregateStep(loop.insights, loop.texts, libFails))]

\* ==========================================================================
\* Source Fetcher: ResearchAgent.gather_and_preprocess_data
\* ==========================================================================
\* variant: the floor of one item is left out
arxiv_individual_count_unfloored(count) ==
    Min(Max(0, count - news_api_target_count), ARXIV_MAX)

\* line 36-40
arxiv_individual_count(count) ==
    Max(1, Min(Max(0, count - news_api_target_count), ARXIV_MAX))

\* NewsApiClient.fetch_top_headlines / ArxivClient.search_articles: every
\* failure is caught inside the client, which then returns [].
ClientResult(ok, articles) == IF ok THEN articles ELSE <<>>

\* lines 31-64: primary source first, then the secondary one
gather_and_preprocess_data(newsOk, newsArticles, arxivOk, arxivArticles) ==
    ClientResult(newsOk, newsArticles) \o ClientResult(arxivOk, arxivArticles)

\* what a source can answer to a request for `limit` articles
ArticleLists(src, limit) ==
    {[i \in 1..Len(kinds) |-> Item(src, kinds[i])] :
        kinds \in SeqsUpTo(ArticleKinds, Min(limit, MaxPerSource))}

\* ==========================================================================
\* Idea Generator: InnovationAgent
\* ==========================================================================
MaxIdeas == 3                  \* longest array of ideas the backend returns

\* A decoded idea element.  A field a dict does not have is Absent, a field
\* holding JSON null is Null; an element that is not a dict has no fields.
Absent == "<absent>"
Null == "<null>"
IdeaElement(isdict, title, description, impact) ==
    [isdict |-> isdict, title |-> title, brief_description |-> description,
     potential_impact |-> impact]
NonDict == IdeaElement(FALSE, Absent, Absent, Absent)
ElementKinds == {"full_a", "full_b", "empty", "nulls", "nondict"}
Element(kind) ==
    IF kind = "full_a" THEN IdeaElement(TRUE, "Title A", "Description A", "Impact A")
    ELSE IF kind = "full_b" THEN IdeaElement(TRUE, "Title B", "Description B", "Impact B")
    ELSE IF kind = "empty" THEN IdeaElement(TRUE, Absent, Absent, Absent)
    ELSE IF kind = "nulls" THEN IdeaElement(TRUE, Null, Null, Null)
    ELSE NonDict
WellFormed(e) ==
    /\ e.isdict
    /\ \A f \in {"title", "brief_description", "potential_impact"} : e[f] \notin {Absent, Null}
ElementLists ==
    {[i \in 1..Len(kinds) |-> Element(kinds[i])] : kinds \in SeqsUpTo(ElementKinds, MaxIdeas)}

\* What the text between the fences (or the whole text) decodes to:
\* "invalid" is text json.loads rejects, "array" a JSON array of `items`,
\* "object" a JSON object whose "ideas" member is `inner`, "scalar" any other
\* JSON value.
InnerKinds == {"absent", "list", "string", "dict", "number", "null"}
Body(kind, inner, items) == [kind |-> kind, inner |-> inner, items |-> items]
Bodies ==
    {Body("invalid", "absent", <<>>), Body("scalar", "absent", <<>>)}
    \cup {Body("array", "absent", l) : l \in ElementLists}
    \cup {Body("object", k, <<>>) : k \in InnerKinds \ {"list"}}
    \cup {Body("object", "list", l) : l \in ElementLists}

\* "json": the text is wrapped in ```json ... ```; "bare": in ``` ... ```
Fences == {"none", "json", "bare"}

\* What the backend call of lines 82-89 can produce: an exception, or a text.
BackendOutcomes ==
    {[call |-> "raise", fence |-> "none", body |-> Body("invalid", "absent", <<>>)]}
    \cup {[call |-> "text", fence |-> f, body |-> b] : f \in Fences, b \in Bodies}

\* variant: no fence is removed
StripFenceNever(text) == text

\* lines 94-95
StripFence(text) ==
    IF text.fence = "json" THEN [text EXCEPT !.fence = "none"] ELSE text

\* json.loads, line 97: a text that still has its fence is not JSON
json_loads(text) ==
    IF text.fence # "none" \/ text.body.kind = "invalid"
    THEN [ok |-> FALSE, value |-> Body("invalid", "absent", <<>>)]
    ELSE [ok |-> TRUE, value |-> text.body]

\* lines 100-105.  `items` is what iterating the value yields: the elements
\* of a list, the characters of a string, the keys of a dict.
ValidateIdeas(decoded) ==
    IF decoded.kind = "array" THEN [kind |-> "list", items |-> decoded.items]
    ELSE IF decoded.kind = "object" /\ decoded.inner # "absent"
         THEN [kind |-> decoded.inner,
               items |-> IF decoded.inner = "list" THEN decoded.items
                         ELSE IF decoded.inner = "string" THEN <<NonDict, NonDict>>
                         ELSE IF decoded.inner = "dict" THEN <<NonDict>>
                         ELSE <<>>]
         ELSE [kind |-> "list", items |-> <<>>]

\* len(), line 107
HasLen(value) == value.kind \in {"list", "string", "dict"}

EmptyIdeas == [raised |-> FALSE, islist |-> TRUE, value |-> <<>>]
Raised == [raised |-> TRUE, islist |-> TRUE, value |-> <<>>]

\* the try block, lines 67-108
TryGenerate(backend) ==
    IF backend.call = "raise" THEN Raised
    ELSE LET decoded == json_loads(StripFence([fence |-> backend.fence, body |-> backend.body]))
         IN  IF ~decoded.ok THEN Raised
             ELSE LET ideas == ValidateIdeas(decoded.value)
                  IN  IF ~HasLen(ideas) THEN Raised
                      ELSE [raised |-> FALSE, islist |-> ideas.kind = "list",
                            value |-> ideas.items]

\* variant: the except clause lets the exception through
ExceptPassesOn(attempt) == attempt

\* except Exception, lines 110-115
ExceptException(attempt) == IF attempt.raised THEN EmptyIdeas ELSE attempt

\* generate_ideas_from_insights, lines 34-115: whether it raises, whether
\* what it returns is a list, and the elements of what it returns
GenerateOutcome(model, insights, backend) ==
    IF ~model THEN EmptyIdeas                             \* 47-49
    ELSE IF insights = <<>> THEN EmptyIdeas               \* 51-53
    ELSE ExceptException(TryGenerate(backend))

\* generate_ideas_from_insights, lines 34-115: what it returns
generate_ideas_from_insights(model, insights, backend) ==
    GenerateOutcome(model, insights, backend).value

\* parameters of generate_ideas_from_insights, line 34
GenerateParameters == {"insights", "creativity_level"}

\* idea.get(field, default), lines 138-140: the default only for a missing key
IdeaGet(idea, field, default) == IF idea[field] = Absent THEN default ELSE idea[field]

\* lines 138-141
ReportSection(i, idea) ==
    [number |-> i,
     title |-> IdeaGet(idea, "title", "Untitled Idea"),
     description |-> IdeaGet(idea, "brief_description", "No description provided."),
     impact |-> IdeaGet(idea, "potential_impact", "No impact assessment provided.")]

\* lines 137-140: .get on an element that is not a dict raises AttributeError
ReportRaises(ideas) == \E i \in DOMAIN ideas : ~ideas[i].isdict

\* generate_markdown_report, lines 117-150 (the timestamp line is left out)
generate_markdown_report(ideas, topic) ==
    [topic |-> topic,
     sections |-> IF ideas = <<>> THEN <<>>
                  ELSE [i \in DOMAIN ideas |-> ReportSection(i, ideas[i])],
     notice |-> (ideas = <<>>)]

\* final_markdown_report = "" (line 374); also what a failure carries
NoReport == [topic |-> "", sections |-> <<>>, notice |-> FALSE]

\* ==========================================================================
\* Endpoints of src/api/main.py
\* ==========================================================================
Topics == {"solar", "ai"}
Counts == {5, 15}

\* get_research_data, lines 288-299.  research_agent_instance exists exactly
\* when NEWS_API_KEY was set at startup (lines 81-85).
get_research_data(newsKey, data) ==
    IF ~newsKey THEN [status |-> 503, data |-> <<>>]
    ELSE [status |-> 200, data |-> data]

\* get_analysis_insights, lines 303-352.  analysis_agent_instance is always
\* set by startup (line 88), so the guard of line 308 never fires.
\* net is the outcome of the HTTP call to the research endpoint.
get_analysis_insights(net, research, libFails) ==
    IF net = "error" THEN [status |-> 500, insights |-> <<>>]               \* 329-332
    ELSE IF research.status # 200
         THEN [status |-> research.status, insights |-> <<>>]               \* 325-328
    ELSE LET r == analyze_data_and_generate_insights(research.data, libFails)
         IN  IF r.raised THEN [status |-> 500, insights |-> <<>>]           \* 349-352
             ELSE [status |-> 200, insights |-> r.insights]

\* variant: the configuration guard lets every request through
GuardOmitted(geminiKey) == TRUE

\* line 367
InnovationConfigured(geminiKey) == geminiKey

\* keyword arguments of the call at lines 414-418
GenerateCallKeywords == {"creativity_level", "refinement_iteration"}

\* The call at lines 414-418: Python raises TypeError for a keyword the
\* callee does not declare, before the callee's body runs.
GenerateCallRaises == ~(GenerateCallKeywords \subseteq GenerateParameters)

\* variant: every iteration replaces the list
AccumulateReplace(it, current, new) == new

\* lines 400-403
Accumulate(it, current, new) ==
    IF it = 0 THEN new ELSE current \o new

\* index of the last record whose type is in `types`, 0 for none
RECURSIVE LastMatchFrom(_, _, _)
LastMatchFrom(s, i, types) ==
    IF i < 1 THEN 0
    ELSE IF s[i].type \in types THEN i
    ELSE LastMatchFrom(s, i - 1, types)

\* variant: the lookup takes the last match
QualityScoreLast(insights) ==
    LET i == LastMatchFrom(insights, Len(insights), ScoredTypes)
    IN  IF i = 0 THEN 0
        ELSE IF insights[i].has_score THEN insights[i].score ELSE 0

\* lines 406-410: first record of an aggregate type, its score or 0.0
QualityScore(insights) ==
    LET i == FirstMatchFrom(insights, 1, ScoredTypes)
    IN  IF i = 0 THEN 0
        ELSE IF insights[i].has_score THEN insights[i].score ELSE 0

\* variant: the continue step leaves the query as it is
BroadenedQueryUnchanged(topic) == <<topic>>

\* line 376 and lines 430-432: the query sent to the analysis endpoint
OriginalQuery(topic) == <<topic>>
BroadenedQuery(topic) == <<topic, "more details">>

\* variant: an exception is swallowed and the pass is tried again
LoopControlRetry(it, exc, score) ==
    IF exc THEN "next"
    ELSE IF it < MAX_REFINEMENT_ITERATIONS /\ score < REFINEMENT_THRESHOLD
         THEN IF it + 1 <= MAX_REFINEMENT_ITERATIONS THEN "next" ELSE "exit"
         ELSE "exit"

\* What ends one pass of the loop body (lines 379, 424-450):
\* an exception ends the call (440-450); otherwise the loop goes on when
\* line 425 holds and range(MAX_REFINEMENT_ITERATIONS + 1) has a next value,
\* and is left otherwise (break, 438).
LoopControl(it, exc, score) ==
    IF exc THEN "fail"
    ELSE IF it < MAX_REFINEMENT_ITERATIONS /\ score < REFINEMENT_THRESHOLD
         THEN IF it + 1 <= MAX_REFINEMENT_ITERATIONS THEN "next" ELSE "exit"
         ELSE "exit"

\* variant: the handler answers with whatever the call holds so far
PartialResponse == [status |-> 200, ideas |-> <<>>, report |-> NoReport]

\* lines 447-450
FailureResponse == [status |-> 500, ideas |-> <<>>, report |-> NoReport]
\* lines 368-371
UnavailableResponse == [status |-> 503, ideas |-> <<>>, report |-> NoReport]
\* lines 452-461
SuccessResponse(ideas, report, topic) ==
    [status |-> 200, ideas |-> ideas,
     report |-> IF ideas = <<>> THEN generate_markdown_report(<<>>, topic) ELSE report]

\* ==========================================================================
\* State
\* ==========================================================================
VARIABLES
    GEMINI_API_KEY,            \* config: the generative backend key is set
    NEWS_API_KEY,              \* config: the news source key is set
    pc,                        \* position of the orchestrate call
    query,                     \* the topic of the call (never reassigned)
    research_count,
    current_analysis_query,
    iteration,
    current_insights,
    insight_quality_score,
    final_ideas,
    final_markdown_report,
    responses,                 \* responses the call has produced
    \* history of the call, for the properties
    itersStarted,              \* times the loop body was entered
    stages,                    \* pipeline stages invoked so far
    raisedIn,                  \* iterations in which an exception was raised
    new_insights,              \* insights received in the latest iteration
    prev_insights,             \* current_insights before the latest iteration
    scoresRead,                \* score read in each iteration, in order
    analysisOk,                \* per iteration: the analysis call returned insights
    \* direct use of the extractor
    x_items, x_libFails, x_result,
    \* direct use of the keyword extraction, the fetcher and the generator
    k_words, k_keywords,
    \* direct use of the ranking of terms
    t_in, t_out,
    f_in, f_out,
    g_in, g_out,
    \* concurrent orchestrate calls: the frame of each call
    calls

orchVars == <<pc, query, research_count, current_analysis_query, iteration,
              current_insights, insight_quality_score, final_ideas,
              final_markdown_report, responses, itersStarted, stages, raisedIn,
              new_insights, prev_insights, scoresRead, analysisOk>>
cfgVars == <<GEMINI_API_KEY, NEWS_API_KEY>>
extractVars == <<x_items, x_libFails, x_result>>
termVars == <<t_in, t_out>>
keywordVars == <<k_words, k_keywords, termVars>>
fetchVars == <<f_in, f_out>>
genVars == <<g_in, g_out>>
unitVars == <<extractVars, keywordVars, fetchVars, genVars, calls>>
vars == <<cfgVars, orchVars, unitVars>>

NotCalled == [raised |-> FALSE, insights |-> <<>>, called |-> FALSE]

OrchInit ==
    /\ pc = "idle"
    /\ query = "solar"
    /\ research_count = 15
    /\ current_analysis_query = <<>>
    /\ iteration = 0
    /\ current_insights = <<>>
    /\ insight_quality_score = 0
    /\ final_ideas = <<>>
    /\ final_markdown_report = NoReport
    /\ responses = <<>>
    /\ itersStarted = 0
    /\ stages = {}
    /\ raisedIn = <<>>
    /\ new_insights = <<>>
    /\ prev_insights = <<>>
    /\ scoresRead = <<>>
    /\ analysisOk = <<>>

ExtractIdle ==
    /\ x_items = <<>>
    /\ x_libFails = FALSE
    /\ x_result = NotCalled

TermIdle ==
    /\ t_in = <<>>
    /\ t_out = <<>>

KeywordIdle ==
    /\ k_words = <<>>
    /\ k_keywords = <<>>
    /\ TermIdle

FetchIdle ==
    /\ f_in = <<>>
    /\ f_out = <<>>

GenIdle ==
    /\ g_in = <<>>
    /\ g_out = <<>>

ConcIdle == calls = <<>>

UnitIdle == ExtractIdle /\ KeywordIdle /\ FetchIdle /\ GenIdle /\ ConcIdle

\* startup_event, lines 68-100: the keys come from the environment
Init ==
    /\ GEMINI_API_KEY \in BOOLEAN
    /\ NEWS_API_KEY \in BOOLEAN
    /\ OrchInit
    /\ UnitIdle

\* ==========================================================================
\* get_innovation_ideas, lines 357-461
\* ==========================================================================
\* lines 357-376: a request arrives (the previous one, if any, has ended)
Request ==
    /\ pc \in {"idle", "done"}
    /\ \E q \in Topics, n \in Counts :
         /\ query' = q
         /\ research_count' = n
         /\ current_analysis_query' = OriginalQuery(q)
    /\ iteration' = 0
    /\ current_insights' = <<>>
    /\ insight_quality_score' = 0
    /\ final_ideas' = <<>>
    /\ final_markdown_report' = NoReport
    /\ itersStarted' = 0
    /\ stages' = {}
    /\ raisedIn' = <<>>
    /\ new_insights' = <<>>
    /\ prev_insights' = <<>>
    /\ scoresRead' = <<>>
    /\ analysisOk' = <<>>
    /\ IF InnovationConfigured(GEMINI_API_KEY)
       THEN /\ pc' = "loop_body"
            /\ responses' = <<>>
       ELSE /\ pc' = "done"
            /\ responses' = <<UnavailableResponse>>
    /\ UNCHANGED <<cfgVars, unitVars>>

\* line 379-380: the loop body is entered for `iteration`
StartIteration ==
    /\ pc = "loop_body"
    /\ itersStarted' = itersStarted + 1
    /\ pc' = "call_analysis"
    /\ UNCHANGED <<query, research_count, current_analysis_query, iteration,
                   current_insights, insight_quality_score, final_ideas,
                   final_markdown_report, responses, stages, raisedIn,
                   new_insights, prev_insights, scoresRead, analysisOk>>
    /\ UNCHANGED <<cfgVars, unitVars>>

\* The control state after a pass of the loop body ended with `ctl`.
\* "exit" covers lines 452-461.
Conclude(ctl, it, ideas, report) ==
    /\ pc' = IF ctl = "next" THEN "loop_body" ELSE "done"
    /\ iteration' = IF ctl = "next" THEN it + 1 ELSE it
    /\ current_analysis_query' =
         IF ctl = "next" THEN BroadenedQuery(query) ELSE current_analysis_query
    /\ raisedIn' = IF ctl = "fail" THEN Append(raisedIn, it) ELSE raisedIn
    /\ responses' =
         IF ctl = "fail" THEN Append(responses, FailureResponse)
         ELSE IF ctl = "exit" THEN Append(responses, SuccessResponse(ideas, report, query))
         ELSE responses

\* lines 382-411: the call to the analysis endpoint, which calls the research
\* endpoint, which fetches and preprocesses; then accumulation and the score.
CallAnalysis ==
    /\ pc = "call_analysis"
    /\ \E net1 \in {"ok", "error"}, net2 \in {"ok", "error"},
          newsOk \in BOOLEAN, arxivOk \in BOOLEAN, libFails \in BOOLEAN,
          newsArticles \in ArticleLists("NewsAPI", news_api_target_count),
          arxivArticles \in ArticleLists("ArXiv", arxiv_individual_count(research_count)) :
         LET data == gather_and_preprocess_data(newsOk, newsArticles, arxivOk, arxivArticles)
             research == get_research_data(NEWS_API_KEY, data)
             analysis == get_analysis_insights(net2, research, libFails)
             exc == net1 = "error" \/ analysis.status # 200      \* 390-391
             acc == Accumulate(iteration, current_insights, analysis.insights)
         IN  /\ stages' = stages \cup
                    (IF net1 = "ok" THEN {"analysis_endpoint"} ELSE {}) \cup
                    (IF net1 = "ok" /\ net2 = "ok" /\ NEWS_API_KEY THEN {"fetch"} ELSE {}) \cup
                    (IF net1 = "ok" /\ net2 = "ok" /\ NEWS_API_KEY THEN {"extract"} ELSE {})
             /\ analysisOk' = Append(analysisOk, ~exc)
             /\ IF exc
                THEN /\ Conclude(LoopControl(iteration, TRUE, insight_quality_score),
                                 iteration, final_ideas, final_markdown_report)
                     /\ UNCHANGED <<current_insights, insight_quality_score,
                                    new_insights, prev_insights, scoresRead>>
                ELSE /\ new_insights' = analysis.insights
                     /\ prev_insights' = current_insights
                     /\ current_insights' = acc
                     /\ insight_quality_score' = QualityScore(acc)
                     /\ scoresRead' = Append(scoresRead, QualityScore(acc))
                     /\ pc' = "generate"
                     /\ UNCHANGED <<iteration, current_analysis_query, raisedIn, responses>>
    /\ UNCHANGED <<query, research_count, final_ideas, final_markdown_report, itersStarted>>
    /\ UNCHANGED <<cfgVars, unitVars>>

\* lines 413-461: the generator call and what follows it
Generate ==
    /\ pc = "generate"
    /\ \E backend \in BackendOutcomes :
         LET generated_ideas ==
                 generate_ideas_from_insights(GEMINI_API_KEY, current_insights, backend)
             exc == \/ GenerateCallRaises
                    \/ (generated_ideas # <<>> /\ ReportRaises(generated_ideas))
             ideas == IF ~exc /\ generated_ideas # <<>> THEN generated_ideas ELSE final_ideas
             report == IF ~exc /\ generated_ideas # <<>>
                       THEN generate_markdown_report(generated_ideas, query)
                       ELSE final_markdown_report
         IN  /\ stages' = IF exc THEN stages ELSE stages \cup {"generate"}
             /\ final_ideas' = ideas
             /\ final_markdown_report' = report
             /\ Conclude(LoopControl(iteration, exc, insight_quality_score),
                         iteration, ideas, report)
    /\ UNCHANGED <<query, research_count, current_insights, insight_quality_score,
                   itersStarted, new_insights, prev_insights, scoresRead, analysisOk>>
    /\ UNCHANGED <<cfgVars, unitVars>>

Next == Request \/ StartIteration \/ CallAnalysis \/ Generate

Spec == Init /\ [][Next]_vars

\* ==========================================================================
\* The extractor used on its own (it is a public method, and the analysis
\* endpoint hands it whatever list the research endpoint returned).
\* ==========================================================================
ExtractInit ==
    /\ GEMINI_API_KEY = TRUE
    /\ NEWS_API_KEY = TRUE
    /\ OrchInit
    /\ x_items \in SeqsUpTo(Items, MaxItems)
    /\ x_libFails \in BOOLEAN
    /\ x_result = NotCalled
    /\ KeywordIdle /\ FetchIdle /\ GenIdle /\ ConcIdle

ApplyExtract ==
    /\ ~x_result.called
    /\ LET r == analyze_data_and_generate_insights(x_items, x_libFails)
       IN  x_result' = [raised |-> r.raised, insights |-> r.insights, called |-> TRUE]
    /\ UNCHANGED <<x_items, x_libFails, cfgVars, orchVars, keywordVars, fetchVars, genVars, calls>>

ExtractNext == ApplyExtract

ExtractSpec == ExtractInit /\ [][ExtractNext]_vars

\* ==========================================================================
\* The accumulation and score-lookup steps of the loop body (lines 394-411)
\* on their own, applied pass after pass to what the extractor returns for
\* the lists the fetcher can deliver.
\* ==========================================================================
FetchedLists ==
    {n \o a : n \in ArticleLists("NewsAPI", news_api_target_count),
              a \in ArticleLists("ArXiv", ARXIV_MAX)}

ExtractorOutputs ==
    {analyze_data_and_generate_insights(d, lf).insights :
        <<d, lf>> \in {x \in FetchedLists \X BOOLEAN :
                          ~analyze_data_and_generate_insights(x[1], x[2]).raised}}

AccInit ==
    /\ GEMINI_API_KEY = TRUE
    /\ NEWS_API_KEY = TRUE
    /\ OrchInit
    /\ UnitIdle

InsightStep ==
    /\ pc = "idle"
    /\ itersStarted <= MAX_REFINEMENT_ITERATIONS
    /\ \E new \in ExtractorOutputs :
         LET acc == Accumulate(itersStarted, current_insights, new)
         IN  /\ new_insights' = new
             /\ prev_insights' = current_insights
             /\ current_insights' = acc
             /\ insight_quality_score' = QualityScore(acc)
             /\ scoresRead' = Append(scoresRead, QualityScore(acc))
    /\ iteration' = itersStarted
    /\ itersStarted' = itersStarted + 1
    /\ UNCHANGED <<pc, query, research_count, current_analysis_query, final_ideas,
                   final_markdown_report, responses, stages, raisedIn, analysisOk>>
    /\ UNCHANGED <<cfgVars, unitVars>>

AccNext == InsightStep

AccSpec == AccInit /\ [][AccNext]_vars

\* ==========================================================================
\* Properties
\* ==========================================================================
ConfiguredCallOver == pc = "done" /\ InnovationConfigured(GEMINI_API_KEY)
AllAnalysisOk == \A i \in DOMAIN analysisOk : analysisOk[i]
TypedIndices(s) == {i \in DOMAIN s : s[i].type # NoType}
ScoredIndices(s) == {i \in DOMAIN s : s[i].type \in ScoredTypes}
IndexMin(S) == CHOOSE i \in S : \A j \in S : i <= j
IndexMax(S) == CHOOSE i \in S : \A j \in S : i >= j
ScoreAt(s, i) == IF s[i].has_score THEN s[i].score ELSE 0

\* C1: in one orchestrate call the loop body is started at most
\* MAX_REFINEMENT_ITERATIONS + 1 times, whatever the stages return.
C1_IterationBound == itersStarted <= MAX_REFINEMENT_ITERATIONS + 1

\* a call that entered the loop body, received insights and has ended
C1_Witness ==
    /\ pc = "done"
    /\ itersStarted >= 1
    /\ "extract" \in stages
    /\ current_insights # <<>>

\* C2: an iteration whose fetch and extract succeeded (the generator never
\* raises to its caller) is followed by another one when iteration <
\* MAX_REFINEMENT_ITERATIONS and the score read is below REFINEMENT_THRESHOLD;
\* stated for iteration 0: such a call has started a second iteration by the
\* time it ends.
C2_LowScoreStartsRefinement ==
    ( /\ ConfiguredCallOver
      /\ analysisOk # <<>> /\ analysisOk[1]
      /\ 0 < MAX_REFINEMENT_ITERATIONS
      /\ scoresRead[1] < REFINEMENT_THRESHOLD )
    => itersStarted >= 2

\* C3: with the backend configured and insights returned in every iteration,
\* a call whose generator invocations all yield no ideas ends with a normal
\* response holding an empty idea list and the report rendered from it.
C3_EmptyIdeasStillAnswered ==
    ( /\ ConfiguredCallOver
      /\ analysisOk # <<>> /\ AllAnalysisOk
      /\ final_ideas = <<>> )
    => responses = <<[status |-> 200, ideas |-> <<>>,
                      report |-> generate_markdown_report(<<>>, query)]>>

\* C4: an exception raised in iteration k ends the call with exactly one
\* failure response; no later iteration is started and the response carries
\* neither ideas nor a report.
C4_ExceptionEndsCall ==
    raisedIn # <<>> =>
        /\ pc = "done"
        /\ Len(raisedIn) = 1
        /\ itersStarted = raisedIn[1] + 1
        /\ Len(responses) = 1
        /\ responses[1].status = 500
        /\ responses[1].ideas = <<>>
        /\ responses[1].report = NoReport

\* an exception raised after the iteration had accumulated insights
C4_Witness ==
    /\ raisedIn # <<>>
    /\ current_insights # <<>>
    /\ pc = "done"

\* C8: a 503 answer is given exactly when the generative backend is not
\* configured, before any pipeline stage runs; a missing news key with the
\* backend configured never ends in 503.
C8_UnavailableOnlyWithoutBackend ==
    /\ \A i \in DOMAIN responses :
         responses[i].status = 503 =>
            /\ ~GEMINI_API_KEY
            /\ stages = {}
            /\ itersStarted = 0
    /\ (pc = "done" /\ ~GEMINI_API_KEY) => responses = <<UnavailableResponse>>

\* the call was refused with 503
C8_Witness ==
    /\ pc = "done"
    /\ responses # <<>>
    /\ responses[1].status = 503

\* a call with the backend configured and the news key missing has ended
C8_WitnessNewsKeyMissing ==
    /\ pc = "done"
    /\ GEMINI_API_KEY /\ ~NEWS_API_KEY
    /\ responses # <<>>
    /\ "analysis_endpoint" \in stages

\* C5: current_insights is append-only: after iteration 0 it is that
\* iteration's new insights, after a later iteration it is the previous list
\* followed by the new insights.
C5_AppendOnly ==
    scoresRead # <<>> =>
        /\ (iteration = 0 => prev_insights = <<>>)
        /\ Len(current_insights) = Len(prev_insights) + Len(new_insights)
        /\ \A i \in DOMAIN prev_insights : current_insights[i] = prev_insights[i]
        /\ \A i \in DOMAIN new_insights :
             current_insights[Len(prev_insights) + i] = new_insights[i]

\* a later iteration appended to a non-empty list
C5_Witness ==
    /\ Len(scoresRead) >= 2
    /\ iteration >= 1
    /\ prev_insights # <<>>
    /\ new_insights # <<>>
    /\ new_insights # prev_insights

C7_LaterScoreIsFirstScore ==
    \A k \in DOMAIN scoresRead : scoresRead[k] = scoresRead[1]

\* two aggregates with different scores coexist after a second iteration
C7_Witness ==
    /\ Len(scoresRead) >= 2
    /\ Cardinality(ScoredIndices(current_insights)) >= 2
    /\ \E i, j \in ScoredIndices(current_insights) :
         ScoreAt(current_insights, i) # ScoreAt(current_insights, j)

\* C9: for every non-empty input list the extractor returns a list of
\* length >= 1 holding exactly one record that carries a type.
C9_ExactlyOneAggregate ==
    (x_result.called /\ x_items # <<>>) =>
        /\ ~x_result.raised
        /\ Len(x_result.insights) >= 1
        /\ Cardinality(TypedIndices(x_result.insights)) = 1

\* C10: the extractor answers the empty list with exactly one record, of
\* type overall_analysis_summary and score 0.1, as a normal return.
C10_EmptyInput ==
    (x_result.called /\ x_items = <<>>) =>
        /\ ~x_result.raised
        /\ Len(x_result.insights) = 1
        /\ x_result.insights[1].type = "overall_analysis_summary"
        /\ x_result.insights[1].has_score
        /\ x_result.insights[1].score = EMPTY_DATA_SCORE

\* the extractor was applied to the empty list
C10_Witness == x_result.called /\ x_items = <<>>

\* C11: an exception raised while one item is processed is caught and only
\* that item is skipped: the extractor returns normally, with one insight
\* for every other valid item, in input order.
ValidItems(items) == SelectSeq(items, LAMBDA it : it.kind \in {"text", "blank"})
PerItemInsights(insights) == SelectSeq(insights, LAMBDA r : r.type = NoType)

C11_PerItemIsolation ==
    x_result.called =>
        /\ ~x_result.raised
        /\ Len(PerItemInsights(x_result.insights)) = Len(ValidItems(x_items))
        /\ \A i \in DOMAIN ValidItems(x_items) :
             PerItemInsights(x_result.insights)[i].source = ValidItems(x_items)[i].source

\* C13: the score of the aggregate the extractor returns lies in [0, 1].
C13_ScoreInUnitInterval ==
    (x_result.called /\ ~x_result.raised) =>
        \A i \in TypedIndices(x_result.insights) :
            /\ x_result.insights[i].has_score
            /\ x_result.insights[i].score >= 0
            /\ x_result.insights[i].score <= SCORE_CAP

\* a trend aggregate whose unclamped sum exceeds 1.0
C13_Witness ==
    /\ x_result.called /\ ~x_result.raised
    /\ \E i \in TypedIndices(x_result.insights) :
         /\ x_result.insights[i].type = "overall_trend_analysis"
         /\ x_result.insights[i].score = SCORE_CAP
         /\ 6 * Len(x_result.insights) + 6 * x_result.insights[i].nterms
              + 20 * x_result.insights[i].clusters > SCORE_CAP

\* ==========================================================================
\* Keyword extraction of one item, analysis_agent.py lines 56-70, on its own.
\* A text is the list of its whitespace-separated tokens.
\* ==========================================================================
MaxWords == 6                  \* longest text
KEYWORD_LIMIT == 5             \* filtered_words[:5]

\* ordinary words; which word is which does not matter to the extraction,
\* so texts introduce them in this order
WordSeq == <<"solar", "cell", "grid", "wind", "tide", "heat">>
Words == {WordSeq[i] : i \in DOMAIN WordSeq}
\* line 61
basic_stop_words == {"a", "an", "the", "is", "are", "and", "or", "in", "of", "to",
                     "for", "on", "with", "by"}
\* "The": a stop word in capitals; "co-op,": a token str.isalnum() rejects
Tokens == Words \cup {"the", "The", "co-op,"}

\* str.lower(), line 56
Lower(t) == IF t = "The" THEN "the" ELSE t
\* str.isalnum(), line 62
IsAlnum(t) == t # "co-op,"

\* line 56 and 60: the lowered text, split
SplitLowered(text) == [i \in DOMAIN text |-> Lower(text[i])]

\* variant: the stop-word test is left out
FilterWordsKeepStopWords(words) == SelectSeq(words, IsAlnum)

\* line 62
FilterWords(words) ==
    SelectSeq(words, LAMBDA w : IsAlnum(w) /\ w \notin basic_stop_words)

\* the elements of s, each once (list(set(...)); Python leaves the order open,
\* first-occurrence order is used here)
RECURSIVE Unique(_)
Unique(s) ==
    IF s = <<>> THEN <<>>
    ELSE LET rest == Unique(SubSeq(s, 1, Len(s) - 1))
             last == s[Len(s)]
         IN  IF \E i \in DOMAIN rest : rest[i] = last THEN rest ELSE Append(rest, last)

\* line 70: list(set(filtered_words[:5]))
extracted_keywords(text) ==
    LET filtered_words == FilterWords(SplitLowered(text))
    IN  Unique(SubSeq(filtered_words, 1, Min(KEYWORD_LIMIT, Len(filtered_words))))

DistinctWords(text) == {t \in Words : \E i \in DOMAIN text : text[i] = t}

KeywordInit ==
    /\ GEMINI_API_KEY = TRUE
    /\ NEWS_API_KEY = TRUE
    /\ OrchInit
    /\ ExtractIdle /\ FetchIdle /\ GenIdle /\ ConcIdle
    /\ k_words = <<>>
    /\ k_keywords = extracted_keywords(<<>>)
    /\ TermIdle

\* the extraction applied to a text one token longer
ReadWord ==
    /\ Len(k_words) < MaxWords
    /\ \E t \in Tokens :
         /\ t \in Words =>
              \E i \in DOMAIN WordSeq :
                  WordSeq[i] = t /\ i <= Cardinality(DistinctWords(k_words)) + 1
         /\ k_words' = Append(k_words, t)
         /\ k_keywords' = extracted_keywords(Append(k_words, t))
    /\ UNCHANGED <<cfgVars, orchVars, extractVars, termVars, fetchVars, genVars, calls>>

KeywordNext == ReadWord

KeywordSpec == KeywordInit /\ [][KeywordNext]_vars

\* C12: extracted_keywords has at most 5 elements, no duplicates, no stop
\* word and no non-alphanumeric token.
C12_KeywordsBoundedAndFiltered ==
    /\ Len(k_keywords) <= 5
    /\ \A i, j \in DOMAIN k_keywords : i # j => k_keywords[i] # k_keywords[j]
    /\ \A i \in DOMAIN k_keywords :
         /\ k_keywords[i] \notin basic_stop_words
         /\ IsAlnum(k_keywords[i])
         /\ k_keywords[i] # "The"

\* a text with more than five distinct usable words, a stop word among them
C12_Witness ==
    /\ Cardinality(DistinctWords(k_words)) > 5
    /\ Len(k_keywords) = 5

\* a text holding a repeated word, a stop word and a non-alphanumeric token
C12_WitnessFiltered ==
    /\ \E i, j \in DOMAIN k_words : i # j /\ k_words[i] = k_words[j] /\ k_words[i] \in Words
    /\ \E i \in DOMAIN k_words : Lower(k_words[i]) \in basic_stop_words
    /\ \E i \in DOMAIN k_words : ~IsAlnum(k_words[i])
    /\ k_keywords # <<>>

\* ==========================================================================
\* ResearchAgent.gather_and_preprocess_data on its own: one call per
\* behaviour, over every target count and every answer of the two sources.
\* ==========================================================================
MaxCount == 12                 \* largest target count

\* variant: the source call is not wrapped in try/except
UnguardedSource(ok, articles) ==
    [raised |-> ~ok, items |-> ClientResult(ok, articles)]

\* lines 44-50 and 54-60: the call of one source inside its own try/except;
\* the items reach all_processed_data only when the call returned
GuardedSource(ok, articles) ==
    [raised |-> FALSE, items |-> ClientResult(ok, articles)]

FetchNotCalled ==
    [called |-> FALSE, raised |-> FALSE, data |-> <<>>, page_size |-> 0, limit |-> 0]

FetchInit ==
    /\ GEMINI_API_KEY = TRUE
    /\ NEWS_API_KEY = TRUE
    /\ OrchInit
    /\ ExtractIdle /\ KeywordIdle /\ GenIdle /\ ConcIdle
    /\ \E count \in 0..MaxCount, newsOk \in BOOLEAN, arxivOk \in BOOLEAN :
         \E news \in ArticleLists("NewsAPI", news_api_target_count),
            arxiv \in ArticleLists("ArXiv", arxiv_individual_count(count)) :
              f_in = [count |-> count, newsOk |-> newsOk, arxivOk |-> arxivOk,
                      news |-> news, arxiv |-> arxiv]
    /\ f_out = FetchNotCalled

\* lines 19-64
ApplyFetch ==
    /\ ~f_out.called
    /\ LET n == GuardedSource(f_in.newsOk, f_in.news)
           a == GuardedSource(f_in.arxivOk, f_in.arxiv)
           raised == n.raised \/ a.raised
       IN  f_out' = [called |-> TRUE,
                     raised |-> raised,
                     data |-> IF raised THEN <<>>
                              ELSE gather_and_preprocess_data(f_in.newsOk, f_in.news,
                                                              f_in.arxivOk, f_in.arxiv),
                     page_size |-> news_api_target_count,
                     limit |-> arxiv_individual_count(f_in.count)]
    /\ UNCHANGED <<f_in, cfgVars, orchVars, extractVars, keywordVars, genVars, calls>>

FetchNext == ApplyFetch

FetchSpec == FetchInit /\ [][FetchNext]_vars

FromSource(data, src) == SelectSeq(data, LAMBDA it : it.source = src)

\* C14: fetch never raises because of a source; a failing source contributes
\* no item; the result is the items of the sources that succeeded, the
\* primary source's first.
C14_FetchSurvivesSources ==
    f_out.called =>
        /\ ~f_out.raised
        /\ FromSource(f_out.data, "NewsAPI") = (IF f_in.newsOk THEN f_in.news ELSE <<>>)
        /\ FromSource(f_out.data, "ArXiv") = (IF f_in.arxivOk THEN f_in.arxiv ELSE <<>>)
        /\ Len(f_out.data) = Len(FromSource(f_out.data, "NewsAPI"))
                             + Len(FromSource(f_out.data, "ArXiv"))
        /\ \A i, j \in DOMAIN f_out.data :
             (f_out.data[i].source = "NewsAPI" /\ f_out.data[j].source = "ArXiv") => i < j

\* the secondary source failed after having had items to give, the primary
\* one answered
C14_Witness ==
    /\ f_out.called
    /\ f_in.newsOk /\ f_in.news # <<>>
    /\ ~f_in.arxivOk /\ f_in.arxiv # <<>>
    /\ f_out.data = f_in.news

\* both sources failed
C14_WitnessAllFail ==
    /\ f_out.called
    /\ ~f_in.newsOk /\ ~f_in.arxivOk
    /\ f_in.news # <<>> /\ f_in.arxiv # <<>>
    /\ f_out.data = <<>>

\* C15 as stated: the primary source is asked for 5 items, the single
\* secondary source for max(1, target_count - 5).
C15_SecondaryGetsWholeRemainder ==
    f_out.called =>
        /\ f_out.page_size = 5
        /\ f_out.limit = Max(1, f_in.count - 5)

\* C15, amended: the primary source is asked for 5 items whatever the target
\* count; the secondary source is asked for the remainder
\* max(0, target_count - 5), raised to 1 and capped at 5.
C15_SecondaryRemainderCapped ==
    f_out.called =>
        /\ f_out.page_size = 5
        /\ f_out.limit >= 1
        /\ f_out.limit <= 5
        /\ (f_in.count - 5 >= 1 /\ f_in.count - 5 <= 5) => f_out.limit = f_in.count - 5
        /\ f_in.count - 5 < 1 => f_out.limit = 1
        /\ f_in.count - 5 > 5 => f_out.limit = 5

\* a target count whose remainder exceeds the cap
C15_Witness ==
    /\ f_out.called
    /\ f_in.count > 10
    /\ f_out.limit = 5

\* ==========================================================================
\* The Idea Generator on its own: generate_ideas_from_insights for every
\* backend outcome, then generate_markdown_report on what it returned.
\* ==========================================================================
GenNotCalled ==
    [called |-> FALSE, raised |-> FALSE, islist |-> TRUE, ideas |-> <<>>,
     report_raised |-> FALSE, report |-> NoReport]

GenInit ==
    /\ GEMINI_API_KEY = TRUE
    /\ NEWS_API_KEY = TRUE
    /\ OrchInit
    /\ ExtractIdle /\ KeywordIdle /\ FetchIdle /\ ConcIdle
    /\ \E model \in BOOLEAN, insights \in {<<>>, <<EmptyDataAggregate>>},
          backend \in BackendOutcomes, topic \in Topics :
         g_in = [model |-> model, insights |-> insights, backend |-> backend,
                 topic |-> topic]
    /\ g_out = GenNotCalled

\* innovation_agent.py lines 34-115, then lines 117-150 on the returned value
ApplyGenerate ==
    /\ ~g_out.called
    /\ LET out == GenerateOutcome(g_in.model, g_in.insights, g_in.backend)
           crash == ~out.raised /\ ReportRaises(out.value)
       IN  g_out' = [called |-> TRUE,
                     raised |-> out.raised,
                     islist |-> out.islist,
                     ideas |-> out.value,
                     report_raised |-> crash,
                     report |-> IF out.raised \/ crash THEN NoReport
                                ELSE generate_markdown_report(out.value, g_in.topic)]
    /\ UNCHANGED <<g_in, cfgVars, orchVars, extractVars, keywordVars, fetchVars, calls>>

GenNext == ApplyGenerate

GenSpec == GenInit /\ [][GenNext]_vars

\* the backend was reached: the model exists and there are insights
BackendReached == g_out.called /\ g_in.model /\ g_in.insights # <<>>
ReturnedEmptyList == ~g_out.raised /\ g_out.islist /\ g_out.ideas = <<>>
\* the text decodes once a ```json fence, if any, is taken off
Decodes ==
    /\ g_in.backend.call = "text"
    /\ g_in.backend.fence \in {"none", "json"}
    /\ g_in.backend.body.kind # "invalid"

C16_WitnessBackendRaises ==
    BackendReached /\ g_in.backend.call = "raise" /\ ReturnedEmptyList

C16_WitnessNotJson ==
    BackendReached /\ g_in.backend.call = "text" /\ g_in.backend.body.kind = "invalid"
    /\ ReturnedEmptyList

\* C17: when the backend text is a JSON array of n well-formed ideas inside a
\* code fence, with or without a language tag, generate returns exactly
\* those n ideas in order and the report has n sections numbered 1..n in
\* input order.
C17_FencedArrayReturnedAndNumbered ==
    (/\ BackendReached
     /\ g_in.backend.call = "text"
     /\ g_in.backend.fence \in {"json", "bare"}
     /\ g_in.backend.body.kind = "array"
     /\ \A i \in DOMAIN g_in.backend.body.items : WellFormed(g_in.backend.body.items[i]))
    => /\ ~g_out.raised
       /\ g_out.islist
       /\ g_out.ideas = g_in.backend.body.items
       /\ ~g_out.report_raised
       /\ Len(g_out.report.sections) = Len(g_in.backend.body.items)
       /\ \A i \in DOMAIN g_out.report.sections :
            /\ g_out.report.sections[i].number = i
            /\ g_out.report.sections[i].title = g_in.backend.body.items[i].title
            /\ g_out.report.sections[i].description
                 = g_in.backend.body.items[i].brief_description
            /\ g_out.report.sections[i].impact = g_in.backend.body.items[i].potential_impact

\* the part of C17 the code keeps: a ```json fence
C17_JsonFenceCase ==
    /\ BackendReached
    /\ g_in.backend.fence = "json"
    /\ g_in.backend.body.kind = "array"
    /\ Len(g_in.backend.body.items) = 3
    /\ \A i \in DOMAIN g_in.backend.body.items : WellFormed(g_in.backend.body.items[i])
    /\ g_in.backend.body.items[1] # g_in.backend.body.items[2]
    /\ g_out.ideas = g_in.backend.body.items
    /\ Len(g_out.report.sections) = 3

\* C19: for every idea list generate returns, generate_markdown_report
\* completes, and every title, description and impact that is missing or
\* malformed appears as its fixed default.
C19_ReportNeverCrashesAndDefaults ==
    (g_out.called /\ ~g_out.raised) =>
        /\ ~g_out.report_raised
        /\ Len(g_out.report.sections) = Len(g_out.ideas)
        /\ \A i \in DOMAIN g_out.report.sections :
             LET idea == g_out.ideas[i]
                 section == g_out.report.sections[i]
                 missing(f) == ~idea.isdict \/ idea[f] \in {Absent, Null}
             IN  /\ section.title = IF missing("title") THEN "Untitled Idea" ELSE idea.title
                 /\ section.description = IF missing("brief_description")
                                          THEN "No description provided."
                                          ELSE idea.brief_description
                 /\ section.impact = IF missing("potential_impact")
                                     THEN "No impact assessment provided."
                                     ELSE idea.potential_impact

\* C18: in a call whose sources return no item at all, extraction yields the
\* single empty-data aggregate with score 0.1, the generator is invoked with
\* that one-element list and returns no idea without raising, and the call's
\* final report carries the "no ideas" notice.
C18_ZeroDataAnsweredWithNotice ==
    ( /\ ConfiguredCallOver
      /\ analysisOk # <<>> /\ AllAnalysisOk
      /\ \A i \in DOMAIN new_insights : new_insights[i] = EmptyDataAggregate
      /\ \A i \in DOMAIN current_insights : current_insights[i] = EmptyDataAggregate )
    => /\ current_insights = <<EmptyDataAggregate>>
       /\ insight_quality_score = EMPTY_DATA_SCORE
       /\ "generate" \in stages
       /\ raisedIn = <<>>
       /\ Len(responses) = 1
       /\ responses[1].status = 200
       /\ responses[1].ideas = <<>>
       /\ responses[1].report.notice

\* ==========================================================================
\* Concurrent orchestrate calls.  FastAPI runs each request to
\* get_innovation_ideas as its own coroutine on one event loop; a coroutine
\* gives way at its awaits (main.py lines 383, 390, 414, 422, 454).  The
\* module-level agent instances (lines 61-63) are assigned in startup_event
\* only; everything a call changes is a local of its coroutine.
\* calls[c] holds the locals of call c (frame) and, beside them, what the
\* call was given: its topic, the answers of the analysis endpoint to its own
\* requests and the outcomes of the backend for its own generator calls.
\* ==========================================================================
MaxCalls == 2                  \* calls in flight together
Calls == 1..MaxCalls

IdleFrame ==
    [pc |-> "idle", query |-> "", current_analysis_query |-> <<>>, iteration |-> 0,
     current_insights |-> <<>>, insight_quality_score |-> 0, final_ideas |-> <<>>,
     final_markdown_report |-> NoReport, responses |-> <<>>]
IdleCall == [topic |-> "", answers |-> <<>>, backends |-> <<>>, frame |-> IdleFrame]

\* variant: the locals are module-level, one set for all calls
LocalsOfFirstCall(c) == calls[1].frame

\* lines 357-376 and 379: parameters and locals of the coroutine of call c
Locals(c) == calls[c].frame

\* what the analysis endpoint can answer to a request of a call
ConcData == {<<>>, <<Item("NewsAPI", "text")>>,
             <<Item("ArXiv", "text"), Item("ArXiv", "blank")>>}
ConcAnswers ==
    {get_analysis_insights(net, get_research_data(TRUE, d), FALSE) :
        net \in {"ok", "error"}, d \in ConcData}
\* what the backend can answer to a generator call of a call
ConcBackends ==
    {b \in BackendOutcomes :
        \/ b.call = "raise"
        \/ /\ b.fence = "none"
           /\ b.body = Body("array", "absent", <<Element("full_a")>>)}

ConcInit ==
    /\ GEMINI_API_KEY \in BOOLEAN
    /\ NEWS_API_KEY = TRUE
    /\ OrchInit
    /\ ExtractIdle /\ KeywordIdle /\ FetchIdle /\ GenIdle
    /\ calls = [c \in Calls |-> IdleCall]

\* lines 357-376: the request of call c arrives
ConcRequest(c) ==
    /\ Locals(c).pc = "idle"
    /\ \E q \in Topics :
         calls' = [calls EXCEPT ![c] =
            [topic |-> q, answers |-> <<>>, backends |-> <<>>,
             frame |-> [IdleFrame EXCEPT
                 !.query = q,
                 !.current_analysis_query = OriginalQuery(q),
                 !.pc = IF InnovationConfigured(GEMINI_API_KEY) THEN "loop_body" ELSE "done",
                 !.responses = IF InnovationConfigured(GEMINI_API_KEY) THEN <<>>
                               ELSE <<UnavailableResponse>>]]]
    /\ UNCHANGED <<cfgVars, orchVars, extractVars, keywordVars, fetchVars, genVars>>

\* lines 379-390: the loop body is entered and the analysis request is sent
ConcStartIteration(c) ==
    /\ Locals(c).pc = "loop_body"
    /\ calls' = [calls EXCEPT ![c].frame = [Locals(c) EXCEPT !.pc = "call_analysis"]]
    /\ UNCHANGED <<cfgVars, orchVars, extractVars, keywordVars, fetchVars, genVars>>

\* the locals after a pass of the loop body ended with `ctl` (lines 425-461)
ConcConclude(f, ctl, ideas, report) ==
    [f EXCEPT
       !.pc = IF ctl = "next" THEN "loop_body" ELSE "done",
       !.iteration = IF ctl = "next" THEN f.iteration + 1 ELSE f.iteration,
       !.current_analysis_query =
            IF ctl = "next" THEN BroadenedQuery(f.query) ELSE f.current_analysis_query,
       !.final_ideas = ideas,
       !.final_markdown_report = report,
       !.responses =
            IF ctl = "fail" THEN Append(f.responses, FailureResponse)
            ELSE IF ctl = "exit"
                 THEN Append(f.responses, SuccessResponse(ideas, report, f.query))
                 ELSE f.responses]

\* lines 390-410: the analysis endpoint answers the request of call c
ConcCallAnalysis(c) ==
    /\ Locals(c).pc = "call_analysis"
    /\ \E answer \in ConcAnswers :
         LET f == Locals(c)
             acc == Accumulate(f.iteration, f.current_insights, answer.insights)
             after ==
                 IF answer.status # 200
                 THEN ConcConclude(f, LoopControl(f.iteration, TRUE, f.insight_quality_score),
                                   f.final_ideas, f.final_markdown_report)
                 ELSE [f EXCEPT !.current_insights = acc,
                                !.insight_quality_score = QualityScore(acc),
                                !.pc = "generate"]
         IN  calls' = [calls EXCEPT ![c].answers = Append(@, answer),
                                    ![c].frame = after]
    /\ UNCHANGED <<cfgVars, orchVars, extractVars, keywordVars, fetchVars, genVars>>

\* variant: the latest generator result is kept even when it is empty
BestIdeasLatest(exc, generated_ideas, previous) == generated_ideas

\* lines 420-421: a non-empty generator result replaces final_ideas
BestIdeas(exc, generated_ideas, previous) ==
    IF ~exc /\ generated_ideas # <<>> THEN generated_ideas ELSE previous

\* lines 413-461 for call c: the generator invocation, which raises before
\* the generator runs when callRaises, and what follows it
ConcGenerateStep(c, backend, callRaises) ==
    /\ Locals(c).pc = "generate"
    /\ LET f == Locals(c)
           generated_ideas ==
               generate_ideas_from_insights(GEMINI_API_KEY, f.current_insights, backend)
           exc == \/ callRaises
                  \/ (generated_ideas # <<>> /\ ReportRaises(generated_ideas))
           ideas == BestIdeas(exc, generated_ideas, f.final_ideas)
           report == IF ~exc /\ generated_ideas # <<>>
                     THEN generate_markdown_report(generated_ideas, f.query)
                     ELSE f.final_markdown_report
       IN  calls' = [calls EXCEPT
               ![c].backends = Append(@, backend),
               ![c].frame = ConcConclude(f, LoopControl(f.iteration, exc,
                                                        f.insight_quality_score),
                                         ideas, report)]
    /\ UNCHANGED <<cfgVars, orchVars, extractVars, keywordVars, fetchVars, genVars>>

\* lines 413-461: the generator call of call c and what follows it
ConcGenerate(c) ==
    \E backend \in ConcBackends : ConcGenerateStep(c, backend, GenerateCallRaises)

ConcNext ==
    \E c \in Calls :
        \/ ConcRequest(c)
        \/ ConcStartIteration(c)
        \/ ConcCallAnalysis(c)
        \/ ConcGenerate(c)

ConcSpec == ConcInit /\ [][ConcNext]_vars

\* The response of a call run alone with the same topic, the same answers
\* of the analysis endpoint and the same backend outcomes.
RECURSIVE SoloRun(_, _, _, _, _, _, _)
SoloRun(topic, answers, backends, it, insights, ideas, report) ==
    IF answers[it + 1].status # 200 THEN FailureResponse
    ELSE LET acc == Accumulate(it, insights, answers[it + 1].insights)
             gen == generate_ideas_from_insights(TRUE, acc, backends[it + 1])
             exc == GenerateCallRaises \/ (gen # <<>> /\ ReportRaises(gen))
             ideas2 == IF ~exc /\ gen # <<>> THEN gen ELSE ideas
             report2 == IF ~exc /\ gen # <<>> THEN generate_markdown_report(gen, topic)
                        ELSE report
             ctl == LoopControl(it, exc, QualityScore(acc))
         IN  IF ctl = "fail" THEN FailureResponse
             ELSE IF ctl = "exit" THEN SuccessResponse(ideas2, report2, topic)
             ELSE SoloRun(topic, answers, backends, it + 1, acc, ideas2, report2)

SoloResponse(call) ==
    IF ~InnovationConfigured(GEMINI_API_KEY) THEN UnavailableResponse
    ELSE SoloRun(call.topic, call.answers, call.backends, 0, <<>>, <<>>, NoReport)

\* the insights of the answers a call received, in order of arrival
RECURSIVE OwnInsights(_)
OwnInsights(answers) ==
    IF answers = <<>> THEN <<>>
    ELSE LET last == answers[Len(answers)]
         IN  OwnInsights(SubSeq(answers, 1, Len(answers) - 1))
               \o (IF last.status = 200 THEN last.insights ELSE <<>>)

\* C20: under every interleaving of concurrent orchestrate calls, the locals
\* of each call hold only what derives from its own topic and from the
\* answers to its own requests, and each call answers what it would answer
\* when run alone.
C20_CallsIsolated ==
    \A c \in Calls :
        calls[c].frame.pc # "idle" =>
            /\ calls[c].frame.query = calls[c].topic
            /\ calls[c].frame.current_analysis_query =
                 (IF calls[c].frame.iteration = 0 THEN OriginalQuery(calls[c].topic)
                  ELSE BroadenedQuery(calls[c].topic))
            /\ calls[c].frame.iteration <= MAX_REFINEMENT_ITERATIONS
            /\ calls[c].frame.current_insights = OwnInsights(calls[c].answers)
            /\ calls[c].frame.final_ideas \in
                 {<<>>} \cup {generate_ideas_from_insights(TRUE, calls[c].frame.current_insights,
                                                          calls[c].backends[i]) :
                                 i \in DOMAIN calls[c].backends}
            /\ calls[c].frame.pc = "done" =>
                 calls[c].frame.responses = <<SoloResponse(calls[c])>>
            /\ calls[c].frame.pc # "done" => calls[c].frame.responses = <<>>

\* two calls in flight together, on different topics, each holding the
\* insights it received, which differ
C20_Witness ==
    \E c, d \in Calls :
        /\ c # d
        /\ calls[c].frame.pc = "generate"
        /\ calls[d].frame.pc = "generate"
        /\ calls[c].topic # calls[d].topic
        /\ calls[c].frame.current_insights # calls[d].frame.current_insights
        /\ calls[c].frame.current_insights # <<>>
        /\ calls[d].frame.current_insights # <<>>

\* one call has answered while the other is still waiting for its insights
C20_WitnessOneDone ==
    \E c, d \in Calls :
        /\ calls[c].frame.pc = "done"
        /\ calls[c].answers # <<>>
        /\ calls[d].frame.pc = "call_analysis"
        /\ calls[c].topic # calls[d].topic

\* ==========================================================================
\* gather_and_preprocess_data in time: the two source calls one after the
\* other, each a blocking requests.get that returns when the source answers
\* or when the timeout of the call, if it has one, runs out.
\* ==========================================================================
\* external_api_client.py lines 31 and 82: requests.get(url, params=params)
\* is given no timeout argument, and requests then waits without limit
NoTimeout == "none"
SourceCallTimeout == NoTimeout

\* requests.get comes back: with the answer, or with a Timeout exception
\* when the call carries a timeout
CallReturns(responds, timeout) == responds \/ timeout # NoTimeout

LiveInit ==
    /\ GEMINI_API_KEY = TRUE
    /\ NEWS_API_KEY = TRUE
    /\ OrchInit
    /\ ExtractIdle /\ KeywordIdle /\ GenIdle /\ ConcIdle
    /\ \E count \in 0..MaxCount, newsOk \in BOOLEAN, arxivOk \in BOOLEAN,
          newsResponds \in BOOLEAN, arxivResponds \in BOOLEAN :
         \E news \in ArticleLists("NewsAPI", news_api_target_count),
            arxiv \in ArticleLists("ArXiv", arxiv_individual_count(count)) :
              f_in = [count |-> count, newsOk |-> newsOk, arxivOk |-> arxivOk,
                      news |-> news, arxiv |-> arxiv,
                      newsResponds |-> newsResponds, arxivResponds |-> arxivResponds]
    /\ f_out = [called |-> FALSE, raised |-> FALSE, data |-> <<>>,
                page_size |-> news_api_target_count,
                limit |-> arxiv_individual_count(f_in.count),
                waiting_on |-> "NewsAPI"]

\* research_agent.py lines 44-51: the NewsAPI call comes back
NewsReturns ==
    /\ f_out.waiting_on = "NewsAPI"
    /\ CallReturns(f_in.newsResponds, SourceCallTimeout)
    /\ LET n == GuardedSource(f_in.newsResponds /\ f_in.newsOk, f_in.news)
       IN  f_out' = [f_out EXCEPT !.data = n.items, !.raised = n.raised,
                                  !.waiting_on = "ArXiv"]
    /\ UNCHANGED <<f_in, cfgVars, orchVars, extractVars, keywordVars, genVars, calls>>

\* research_agent.py lines 54-64: the ArXiv call comes back, fetch returns
ArxivReturns ==
    /\ f_out.waiting_on = "ArXiv"
    /\ CallReturns(f_in.arxivResponds, SourceCallTimeout)
    /\ LET a == GuardedSource(f_in.arxivResponds /\ f_in.arxivOk, f_in.arxiv)
       IN  f_out' = [f_out EXCEPT !.data = f_out.data \o a.items,
                                  !.raised = f_out.raised \/ a.raised,
                                  !.waiting_on = "none",
                                  !.called = TRUE]
    /\ UNCHANGED <<f_in, cfgVars, orchVars, extractVars, keywordVars, genVars, calls>>

LiveNext == NewsReturns \/ ArxivReturns

\* the agent takes its next step whenever the call it waits on has come back
LiveSpec == LiveInit /\ [][LiveNext]_vars /\ WF_vars(NewsReturns) /\ WF_vars(ArxivReturns)

\* C21: every source call carries a bounded timeout, so fetch eventually
\* completes whatever the sources do, a source that never responds
\* contributing no item.
C21_FetchEventuallyCompletes ==
    <>( /\ f_out.called
        /\ (~f_in.newsResponds => FromSource(f_out.data, "NewsAPI") = <<>>)
        /\ (~f_in.arxivResponds => FromSource(f_out.data, "ArXiv") = <<>>) )

\* Scores are in sixtieths: x/10 is 6x and k/3 is 20k.
TrendIndices(s) == {i \in DOMAIN s : s[i].type = "overall_trend_analysis"}

\* C22 as stated: the score of an overall_trend_analysis aggregate is
\* min(1.0, insight_count/10 + len(overall_top_terms)/10 + clusters/3) with
\* insight_count the number of per-item records, the aggregate not counted.
C22_ScoreCountsPerItemRecords ==
    (x_result.called /\ ~x_result.raised) =>
        \A i \in TrendIndices(x_result.insights) :
            x_result.insights[i].score =
                Min(SCORE_CAP, 6 * Len(PerItemInsights(x_result.insights))
                               + 6 * x_result.insights[i].nterms
                               + 20 * x_result.insights[i].clusters)

\* C22, amended: insight_count is the number of all records of the result,
\* the aggregate record included.
C22_ScoreCountsAllRecords ==
    (x_result.called /\ ~x_result.raised) =>
        \A i \in TrendIndices(x_result.insights) :
            /\ x_result.insights[i].has_score
            /\ x_result.insights[i].score =
                Min(SCORE_CAP, 6 * Len(x_result.insights)
                               + 6 * x_result.insights[i].nterms
                               + 20 * x_result.insights[i].clusters)

\* a trend aggregate for which the two counts give different scores
C22_Witness ==
    /\ x_result.called /\ ~x_result.raised
    /\ \E i \in TrendIndices(x_result.insights) :
         /\ 6 * Len(PerItemInsights(x_result.insights))
              + 6 * x_result.insights[i].nterms
              + 20 * x_result.insights[i].clusters < SCORE_CAP
         /\ x_result.insights[i].score = SCORE_CAP

\* C23: generate always returns a list: for a decoded non-list it returns
\* the list under "ideas" when the response is an object holding a list
\* there, and the empty list in every other case.
C23_AlwaysAList ==
    g_out.called =>
        /\ ~g_out.raised
        /\ g_out.islist
        /\ (BackendReached /\ Decodes /\ g_in.backend.body.kind = "object"
            /\ g_in.backend.body.inner = "list")
           => g_out.ideas = g_in.backend.body.items
        /\ (\/ g_in.backend.body.kind = "scalar"
            \/ g_in.backend.body.kind = "object" /\ g_in.backend.body.inner # "list")
           => g_out.ideas = <<>>

\* ==========================================================================
\* The loop of get_innovation_ideas for one call, with the outcome of the
\* generator invocation of lines 414-418 left open: it raises, as the call
\* written there does, or it binds and the generator runs.  Every behaviour
\* of the call as written is a behaviour of LoopSpec, so what holds of every
\* LoopSpec state holds of the call as written; the passes after a bound
\* invocation show what lines 420-438 do when they are reached.
\* ==========================================================================
LoopCalls == {c \in Calls : \A d \in Calls : c <= d}
TheCall == CHOOSE c \in LoopCalls : TRUE

LoopBackends ==
    ConcBackends
    \cup {b \in BackendOutcomes :
            /\ b.fence = "none"
            /\ b.body = Body("array", "absent", <<Element("full_b"), Element("empty")>>)}

LoopInit == ConcInit

\* lines 413-461 with the invocation raising or binding
LoopGenerate(c) ==
    \E backend \in LoopBackends, callRaises \in {GenerateCallRaises, FALSE} :
        ConcGenerateStep(c, backend, callRaises)

LoopNext ==
    \E c \in LoopCalls :
        \/ ConcRequest(c)
        \/ ConcStartIteration(c)
        \/ ConcCallAnalysis(c)
        \/ LoopGenerate(c)

LoopSpec == LoopInit /\ [][LoopNext]_vars

\* what the generator returned in pass j of a call: it was given the
\* insights accumulated up to that pass
IdeasOfPass(call, j) ==
    generate_ideas_from_insights(TRUE, OwnInsights(SubSeq(call.answers, 1, j)),
                                 call.backends[j])

\* the last pass up to n whose generator result was not empty, 0 for none
RECURSIVE LastNonEmptyPass(_, _)
LastNonEmptyPass(call, n) ==
    IF n = 0 THEN 0
    ELSE IF IdeasOfPass(call, n) # <<>> THEN n
    ELSE LastNonEmptyPass(call, n - 1)

\* C24: final_ideas and the report are replaced only by a non-empty generator
\* result; after a pass with an empty result they are those of the last pass
\* with a non-empty one, and the response carries those ideas and the report
\* rendered from them for the original topic.
C24_BestIdeasKept ==
    LET call == calls[TheCall]
        f == call.frame
        last == LastNonEmptyPass(call, Len(call.backends))
        best == IF last = 0 THEN <<>> ELSE IdeasOfPass(call, last)
    IN  /\ f.pc \notin {"idle", "done"} =>
              /\ Len(call.backends) = f.iteration
              /\ f.final_ideas = best
              /\ f.final_markdown_report =
                   (IF last = 0 THEN NoReport
                    ELSE generate_markdown_report(best, call.topic))
        /\ (f.pc = "done" /\ f.responses # <<>> /\ f.responses[1].status = 200) =>
              /\ f.responses[1].ideas = best
              /\ f.responses[1].report = generate_markdown_report(best, call.topic)

\* a call that got ideas in its first pass and none in its second
C24_Witness ==
    LET call == calls[TheCall]
    IN  /\ call.frame.pc = "done"
        /\ Len(call.backends) = 2
        /\ IdeasOfPass(call, 1) # <<>>
        /\ IdeasOfPass(call, 2) = <<>>
        /\ call.frame.responses[1].status = 200
        /\ call.frame.responses[1].ideas = IdeasOfPass(call, 1)
        /\ call.frame.final_ideas = IdeasOfPass(call, 1)

\* C26: within one call the topic is never modified; the query sent to the
\* analysis endpoint is the topic in iteration 0 and, in every later
\* iteration, the one broadened variant of the topic; every report is
\* rendered with the topic.
C26_QueryRewrittenOnlyAtContinue ==
    LET call == calls[TheCall]
        f == call.frame
    IN  f.pc # "idle" =>
            /\ f.query = call.topic
            /\ f.iteration = 0 => f.current_analysis_query = <<call.topic>>
            /\ f.iteration > 0 =>
                 f.current_analysis_query = <<call.topic, "more details">>
            /\ f.final_markdown_report # NoReport =>
                 f.final_markdown_report.topic = call.topic
            /\ \A i \in DOMAIN f.responses :
                 f.responses[i].report # NoReport =>
                     f.responses[i].report.topic = call.topic

\* a call in its second pass, sending the broadened query, with a report
\* rendered in its first pass
C26_Witness ==
    LET call == calls[TheCall]
    IN  /\ call.frame.pc = "call_analysis"
        /\ call.frame.iteration = 1
        /\ call.frame.current_analysis_query = <<call.topic, "more details">>
        /\ call.frame.final_markdown_report # NoReport
        /\ call.frame.final_markdown_report.topic = call.topic

\* ==========================================================================
\* The ranking of terms, analysis_agent.py lines 92-99, on its own.  Terms
\* are the columns 1..n of the TF-IDF matrix; weights[i] is the sum of
\* column i (sums_tfidf).
\* ==========================================================================
MaxTerms == 4                  \* most terms in the vocabulary
MaxWeight == 3                 \* largest column sum
TOP_TERMS_LIMIT == 10          \* sorted_indices_list[:10]

\* np.argsort: the indices by ascending weight (equal weights by index)
RECURSIVE ArgsortAscending(_, _)
ArgsortAscending(S, weights) ==
    IF S = {} THEN <<>>
    ELSE LET m == CHOOSE i \in S :
                     \A j \in S : weights[i] < weights[j]
                                  \/ (weights[i] = weights[j] /\ i <= j)
         IN  <<m>> \o ArgsortAscending(S \ {m}, weights)

\* lines 93-99.  Each entry of the list is given as the terms its string
\* names.  tfidf_matrix.sum(axis=0) of a scipy sparse matrix is a 1 x n
\* numpy matrix: argsort(...).flatten().tolist() is then a list holding one
\* list of all indices, and the loop appends one string naming every term.
\* With a one-dimensional sum the loop appends the first ten indices' terms.
overall_top_terms(weights, sumIsMatrix) ==
    LET sorted_indices == ArgsortAscending(DOMAIN weights, weights)
    IN  IF sumIsMatrix THEN <<sorted_indices>>
        ELSE [i \in 1..Min(TOP_TERMS_LIMIT, Len(sorted_indices)) |-> <<sorted_indices[i]>>]

TermInit ==
    /\ GEMINI_API_KEY = TRUE
    /\ NEWS_API_KEY = TRUE
    /\ OrchInit
    /\ ExtractIdle /\ FetchIdle /\ GenIdle /\ ConcIdle
    /\ k_words = <<>>
    /\ k_keywords = <<>>
    /\ \E n \in 1..MaxTerms, sumIsMatrix \in BOOLEAN :
         \E weights \in [1..n -> 1..MaxWeight] :
             t_in = [weights |-> weights, sumIsMatrix |-> sumIsMatrix]
    /\ t_out = [called |-> FALSE, terms |-> <<>>]

ApplyRanking ==
    /\ ~t_out.called
    /\ t_out' = [called |-> TRUE,
                 terms |-> overall_top_terms(t_in.weights, t_in.sumIsMatrix)]
    /\ UNCHANGED <<t_in, k_words, k_keywords, cfgVars, orchVars, extractVars,
                   fetchVars, genVars, calls>>

TermNext == ApplyRanking

TermSpec == TermInit /\ [][TermNext]_vars

\* C25: overall_top_terms are the (up to 10) terms of highest weight in
\* descending weight order: each entry is one term, no term left out has a
\* strictly larger weight than a listed one, and weights do not increase
\* along the list.
C25_TopTermsByDescendingWeight ==
    t_out.called =>
        LET n == Len(t_in.weights)
            listed == {t_out.terms[i][1] : i \in DOMAIN t_out.terms}
        IN  /\ Len(t_out.terms) = Min(10, n)
            /\ \A i \in DOMAIN t_out.terms : Len(t_out.terms[i]) = 1
            /\ \A i, j \in DOMAIN t_out.terms :
                 i < j => t_in.weights[t_out.terms[i][1]] >= t_in.weights[t_out.terms[j][1]]
            /\ \A u \in (1..n) \ listed, l \in listed :
                 t_in.weights[u] <= t_in.weights[l]

\* the order is the only thing wrong when the sum is one-dimensional
C25_AscendingWhenOneDimensional ==
    (t_out.called /\ ~t_in.sumIsMatrix) =>
        /\ Len(t_out.terms) = Min(10, Len(t_in.weights))
        /\ \A i, j \in DOMAIN t_out.terms :
             i < j => t_in.weights[t_out.terms[i][1]] <= t_in.weights[t_out.terms[j][1]]

\* the texts the item loop collected from the items of a call
CollectedTexts(items) ==
    ItemLoop(items, [raised |-> FALSE, insights |-> <<>>, texts |-> <<>>]).texts

\* C27: an overall_trend_analysis aggregate always carries a score of at
\* least REFINEMENT_THRESHOLD and every other aggregate carries 0.1 or 0.05;
\* so the stop decision of the orchestrator, applied to a first extraction,
\* continues only when that extraction returned an overall_analysis_summary
\* aggregate, which is when it had fewer than two usable items or its
\* aggregate analysis failed.
C27_RefinementOnlyAfterSummary ==
    (x_result.called /\ ~x_result.raised) =>
        /\ \A i \in TypedIndices(x_result.insights) :
             IF x_result.insights[i].type = "overall_trend_analysis"
             THEN x_result.insights[i].score >= REFINEMENT_THRESHOLD
             ELSE x_result.insights[i].score \in {EMPTY_DATA_SCORE, FALLBACK_SCORE}
        /\ LoopControl(0, FALSE, QualityScore(x_result.insights)) = "next" =>
             /\ TrendIndices(x_result.insights) = {}
             /\ \E i \in TypedIndices(x_result.insights) :
                  x_result.insights[i].type = "overall_analysis_summary"
             /\ \/ Len(ValidItems(x_items)) < 2
                \/ AggregateRaises(CollectedTexts(x_items), x_libFails)

\* an extraction with a trend aggregate, after which the orchestrator stops
C27_Witness ==
    /\ x_result.called /\ ~x_result.raised
    /\ TrendIndices(x_result.insights) # {}
    /\ QualityScore(x_result.insights) >= REFINEMENT_THRESHOLD
    /\ LoopControl(0, FALSE, QualityScore(x_result.insights)) = "exit"

\* an extraction of two usable items whose aggregate analysis failed, after
\* which the orchestrator continues
C27_WitnessContinue ==
    /\ x_result.called /\ ~x_result.raised
    /\ Len(ValidItems(x_items)) >= 2
    /\ LoopControl(0, FALSE, QualityScore(x_result.insights)) = "next"

\* C28: no extract call returns a record of type "overall_summary"; every
\* aggregate in a result has type overall_trend_analysis or
\* overall_analysis_summary and the orchestrator's lookup finds one.
C28_NoOverallSummary ==
    (x_result.called /\ ~x_result.raised) =>
        /\ \A i \in DOMAIN x_result.insights :
             x_result.insights[i].type # "overall_summary"
        /\ \A i \in TypedIndices(x_result.insights) :
             x_result.insights[i].type \in ScoredTypes
        /\ FirstMatchFrom(x_result.insights, 1, ScoredTypes) # 0
        /\ FirstMatchFrom(x_result.insights, 1, ScoredTypes) \in TypedIndices(x_result.insights)

\* the aggregate step ran on two texts or more and its clustering failed:
\* the result ends with the 0.05 fallback
C28_Witness ==
    /\ x_result.called /\ ~x_result.raised
    /\ Len(CollectedTexts(x_items)) >= 2
    /\ AggregateRaises(CollectedTexts(x_items), x_libFails)
    /\ x_result.insights[Len(x_result.insights)] = FallbackAggregate

\* the aggregate step ran on two texts or more and succeeded
C28_WitnessTrend ==
    /\ x_result.called /\ ~x_result.raised
    /\ Len(CollectedTexts(x_items)) >= 2
    /\ TrendIndices(x_result.insights) # {}

====
